---- MODULE Spec2Model ----
(***************************************************************************)
(* uberpy.core.base: the retrying request engine (Base._wrapper) around    *)
(* the request executor (Base._request), and the URL join of _request.     *)
(*                                                                         *)
(* Durations are counted in half seconds, the unit of DEFAULT_JITTER_MAX   *)
(* (0.5 s), so that every delay of the model is an integer.  Strings that  *)
(* the code parses or joins are sequences of one-character strings.        *)
(***************************************************************************)
EXTENDS Integers, Sequences, FiniteSets, TLC

(***************************************************************************)
(* Bounds of the model.                                                    *)
(***************************************************************************)
\* largest max_retries a client is constructed with
MaxRetriesBound == 5
\* largest jitter_max (in half seconds) a client is constructed with
MaxJitterBound == 2
\* longest list of path segments passed to a call
MaxSegments == 2
\* calls of _wrapper running at the same time on one client
NumCalls == 2

(***************************************************************************)
(* Module constants of base.py.                                            *)
(***************************************************************************)
\* base.py:21  DEFAULT_JITTER_MAX = 0.5 (seconds) = 1 half second
DEFAULT_JITTER_MAX == 1
\* base.py:22
DEFAULT_MAX_RETRIES == 3
\* base.py:23-30
DEFAULT_RETRIABLE_HTTP_CODES == {401, 429, 500, 502, 503, 504}

\* half seconds in one second
Second == 2 * DEFAULT_JITTER_MAX

\* the ceiling of the exponential part, the literal 20 (seconds) of base.py:154,167
BackoffCap == 20

\* Python's None for an optional constructor argument
NoArg == -1000

(***************************************************************************)
(* Floats as the code handles them: a finite number of half seconds, nan   *)
(* or inf.                                                                 *)
(***************************************************************************)
Num(v) == [k |-> "num", v |-> v]
NaN == [k |-> "nan", v |-> 0]
Inf == [k |-> "inf", v |-> 0]

Min(a, b) == IF a <= b THEN a ELSE b

RECURSIVE Pow2(_)
Pow2(n) == IF n <= 0 THEN 1 ELSE 2 * Pow2(n - 1)

RECURSIVE Pow10(_)
Pow10(n) == IF n <= 0 THEN 1 ELSE 10 * Pow10(n - 1)

(***************************************************************************)
(* float(retry_after): the text of a Retry-After header to a float.        *)
(* Covers [sign] digits [. digits], "nan" and "inf"; anything else raises  *)
(* ValueError (ok = FALSE).                                                *)
(***************************************************************************)
Digits == {"0", "1", "2", "3", "4", "5", "6", "7", "8", "9"}

DigitVal(c) ==
    CASE c = "0" -> 0 [] c = "1" -> 1 [] c = "2" -> 2 [] c = "3" -> 3
      [] c = "4" -> 4 [] c = "5" -> 5 [] c = "6" -> 6 [] c = "7" -> 7
      [] c = "8" -> 8 [] c = "9" -> 9

RECURSIVE DecimalVal(_)
DecimalVal(s) ==
    IF Len(s) = 0 THEN 0
    ELSE 10 * DecimalVal(SubSeq(s, 1, Len(s) - 1)) + DigitVal(s[Len(s)])

AllDigits(s) == \A i \in 1..Len(s) : s[i] \in Digits

\* position of the first "." of s, or Len(s) + 1
DotPos(s) ==
    IF \E i \in 1..Len(s) : s[i] = "."
    THEN CHOOSE i \in 1..Len(s) : s[i] = "." /\ \A j \in 1..(i - 1) : s[j] # "."
    ELSE Len(s) + 1

\* an unsigned decimal literal, in half seconds
UnsignedVal(s) ==
    LET d == DotPos(s)
        ip == SubSeq(s, 1, d - 1)
        fp == SubSeq(s, d + 1, Len(s))
    IN  Second * DecimalVal(ip) + (Second * DecimalVal(fp)) \div Pow10(Len(fp))

UnsignedOk(s) ==
    LET d == DotPos(s)
        ip == SubSeq(s, 1, d - 1)
        fp == SubSeq(s, d + 1, Len(s))
    IN  /\ AllDigits(ip)
        /\ AllDigits(fp)
        /\ Len(ip) + Len(fp) > 0

ParseFloat(s) ==
    IF s = <<"n", "a", "n">> THEN [ok |-> TRUE, f |-> NaN]
    ELSE IF s = <<"i", "n", "f">> THEN [ok |-> TRUE, f |-> Inf]
    ELSE IF Len(s) > 0 /\ s[1] = "-"
         THEN [ok |-> UnsignedOk(Tail(s)),
               f |-> IF UnsignedOk(Tail(s)) THEN Num(0 - UnsignedVal(Tail(s))) ELSE NaN]
    ELSE IF Len(s) > 0 /\ s[1] = "+"
         THEN [ok |-> UnsignedOk(Tail(s)),
               f |-> IF UnsignedOk(Tail(s)) THEN Num(UnsignedVal(Tail(s))) ELSE NaN]
    ELSE [ok |-> UnsignedOk(s),
          f |-> IF UnsignedOk(s) THEN Num(UnsignedVal(s)) ELSE NaN]

(***************************************************************************)
(* Responses and failures.                                                 *)
(***************************************************************************)
\* e.response.headers.get('Retry-After'): None, or the header's text
NoHeader == [present |-> FALSE, text |-> <<>>]
Header(s) == [present |-> TRUE, text |-> s]

RetryAfterTexts ==
    { <<>>, <<"a", "b", "c">>, <<"0">>, <<"7">>, <<"1", ".", "5">>,
      <<"-", "1">>, <<"n", "a", "n">>, <<"i", "n", "f">> }

RetryAfterHeaders == {NoHeader} \cup {Header(s) : s \in RetryAfterTexts}

StatusCodes == {200, 204, 400, 404, 429, 500}

\* response bodies: empty, two JSON documents, and text that is not JSON
Contents == {"", "{\"id\": 1}", "{\"id\": 2}", "<html>"}

Responses == [status_code : StatusCodes, content : Contents, retry_after : RetryAfterHeaders]

\* what one run of the executor ends with; `at` is the attempt that produced it
Outcome(kind, status, hdr, value, at) ==
    [kind |-> kind, status |-> status, retry_after |-> hdr, value |-> value, at |-> at]

None == Outcome("None", 0, NoHeader, "None", 0)

EmptyMapping == "{}"

\* response.json()
JsonOk(content) == content \in {"{\"id\": 1}", "{\"id\": 2}"}
Json(content) == IF content = "{\"id\": 1}" THEN "dict(id=1)" ELSE "dict(id=2)"

\* Base._request from raise_for_status on, for the response the transport gave
RequestOutcomeNo204(resp, at) ==
    IF resp.status_code >= 400
    THEN Outcome("HTTPError", resp.status_code, resp.retry_after, "None", at)
    ELSE IF resp.content = ""
    THEN Outcome("ok", resp.status_code, NoHeader, EmptyMapping, at)
    ELSE IF JsonOk(resp.content)
    THEN Outcome("ok", resp.status_code, NoHeader, Json(resp.content), at)
    ELSE Outcome("JSONDecodeError", resp.status_code, NoHeader, "None", at)
RequestOutcome(resp, at) ==
    IF resp.status_code >= 400
    THEN Outcome("HTTPError", resp.status_code, resp.retry_after, "None", at)
    ELSE IF resp.status_code = 204 \/ resp.content = ""
    THEN Outcome("ok", resp.status_code, NoHeader, EmptyMapping, at)
    ELSE IF JsonOk(resp.content)
    THEN Outcome("ok", resp.status_code, NoHeader, Json(resp.content), at)
    ELSE Outcome("JSONDecodeError", resp.status_code, NoHeader, "None", at)

TransportFailures == {"ConnectionError", "Timeout"}

NoResponse == [status_code |-> 0, content |-> "", retry_after |-> NoHeader]

(***************************************************************************)
(* Base.__init__: a None argument takes the module default.                *)
(***************************************************************************)
InitMaxRetries(arg) == IF arg = NoArg THEN DEFAULT_MAX_RETRIES ELSE arg
InitJitterMax(arg) == IF arg = NoArg THEN DEFAULT_JITTER_MAX ELSE arg
InitRetriableCodes(arg) == IF arg = {NoArg} THEN DEFAULT_RETRIABLE_HTTP_CODES ELSE arg

(***************************************************************************)
(* The pieces of Base._wrapper.                                            *)
(***************************************************************************)
\* while retries <= self._max_retries
LoopContinuesOffByOne(r, m) == r <= m + 1
LoopContinues(r, m) == r <= m

\* e.response.status_code in self._retriable_http_codes
IsRetriableAlways(status, codes) == TRUE
IsRetriable(status, codes) == status \in codes

\* exception = e
Captured(old, e) == e

\* the failures the except clauses of _wrapper name
CaughtAny(kind) == TRUE
Caught(kind) == kind \in {"HTTPError", "ConnectionError", "Timeout"}

\* min(2**retries, 20) + random.uniform(0, self._jitter_max), j the jitter drawn
ExpBackoffUncapped(r, j) == Num(Second * Pow2(r) + j)
ExpBackoff(r, j) == Num(Second * Min(Pow2(r), BackoffCap) + j)

\* the Retry-After override of the HTTPError handler: exp is the exponential
\* backoff already computed, hdr is e.response.headers.get('Retry-After')
HintBackoffAtLeastExp(exp, hdr) ==
    IF hdr.present /\ hdr.text # <<>> /\ ParseFloat(hdr.text).ok
    THEN IF ParseFloat(hdr.text).f.k = "num" /\ ParseFloat(hdr.text).f.v < exp.v
         THEN exp
         ELSE ParseFloat(hdr.text).f
    ELSE exp
HintBackoff(exp, hdr) ==
    IF hdr.present /\ hdr.text # <<>>
    THEN IF ParseFloat(hdr.text).ok THEN ParseFloat(hdr.text).f ELSE exp
    ELSE exp

\* the handler of ConnectionError / Timeout goes on to sleep and retry
TransportHandlerRaises == "raised"
TransportHandler == "sleep"

\* return self._request(...)
ReturnedEmpty(v) == EmptyMapping
Returned(v) == v

\* assert exception; raise exception
AfterLoop(exc) ==
    IF exc.kind = "None" THEN Outcome("AssertionError", 0, NoHeader, "None", 0) ELSE exc

\* time.sleep(x): what it raises instead of suspending, "" when it suspends
SleepRaises(x) ==
    IF x.k = "nan" THEN "ValueError"
    ELSE IF x.k = "inf" THEN "OverflowError"
    ELSE IF x.v < 0 THEN "ValueError"
    ELSE ""

(***************************************************************************)
(* The URL join of Base._request.                                          *)
(***************************************************************************)
Sep == "/"

\* BASE_URL = 'https://api.uber.com/{version}/customers/{customer_id}'
BASE_URL_HEAD ==
    <<"h", "t", "t", "p", "s", ":", "/", "/", "a", "p", "i", ".", "u", "b", "e", "r",
      ".", "c", "o", "m", "/">>
BASE_URL_MID == <<"/", "c", "u", "s", "t", "o", "m", "e", "r", "s", "/">>

\* BASE_URL.format(version=version, customer_id=customer_id), version 'v1'
ApiRoot(customer_id) == BASE_URL_HEAD \o <<"v", "1">> \o BASE_URL_MID \o customer_id

RECURSIVE LStrip(_)
LStrip(s) == IF Len(s) > 0 /\ Head(s) = Sep THEN LStrip(Tail(s)) ELSE s

RECURSIVE RStrip(_)
RStrip(s) ==
    IF Len(s) > 0 /\ s[Len(s)] = Sep THEN RStrip(SubSeq(s, 1, Len(s) - 1)) ELSE s

\* s.strip('/')
Strip(s) == RStrip(LStrip(s))

DigitChar(d) ==
    CASE d = 0 -> "0" [] d = 1 -> "1" [] d = 2 -> "2" [] d = 3 -> "3" [] d = 4 -> "4"
      [] d = 5 -> "5" [] d = 6 -> "6" [] d = 7 -> "7" [] d = 8 -> "8" [] d = 9 -> "9"

RECURSIVE NatToStr(_)
NatToStr(n) ==
    IF n < 10 THEN <<DigitChar(n)>> ELSE NatToStr(n \div 10) \o <<DigitChar(n % 10)>>

\* str(arg) for a segment that is a string or an integer
StrSeg(s) == [t |-> "str", s |-> s, n |-> 0]
IntSeg(n) == [t |-> "int", s |-> <<>>, n |-> n]
Str(arg) ==
    IF arg.t = "str" THEN arg.s
    ELSE IF arg.n < 0 THEN <<"-">> \o NatToStr(0 - arg.n) ELSE NatToStr(arg.n)

\* quote(c, safe=''): letters, digits and "_.-~" stay, any other character is escaped
Unreserved == Digits \cup {"a", "b", "c", "_", ".", "-", "~"}
QuoteChar(c) ==
    IF c \in Unreserved THEN <<c>>
    ELSE IF c = "/" THEN <<"%", "2", "F">>
    ELSE IF c = "%" THEN <<"%", "2", "5">>
    ELSE <<"%", "2", "0">>

RECURSIVE Quote(_)
Quote(s) == IF Len(s) = 0 THEN <<>> ELSE QuoteChar(Head(s)) \o Quote(Tail(s))

\* '/'.join(parts)
RECURSIVE Join(_)
Join(parts) ==
    IF Len(parts) = 0 THEN <<>>
    ELSE IF Len(parts) = 1 THEN parts[1]
    ELSE parts[1] \o <<Sep>> \o Join(Tail(parts))

\* path_segments = [root.rstrip('/')] + [quote(str(arg).strip('/'), safe='') ...]
PathSegments(root, args) ==
    <<RStrip(root)>> \o [i \in 1..Len(args) |-> Quote(Strip(Str(args[i])))]

BuildUrl(root, args) == Join(PathSegments(root, args))

CustomerIds == { <<"c", "7">>, <<"c", "/">> }

SegmentValues ==
    { StrSeg(<<>>), StrSeg(<<"a">>), StrSeg(<<"/">>), StrSeg(<<"/", "/">>),
      StrSeg(<<"a", "/", "b">>), StrSeg(<<"/", "a", "/">>), StrSeg(<<"%">>),
      StrSeg(<<" ">>), IntSeg(0), IntSeg(42), IntSeg(0 - 3) }

RECURSIVE SeqsUpTo(_, _)
SeqsUpTo(S, n) ==
    IF n = 0 THEN { <<>> }
    ELSE SeqsUpTo(S, n - 1) \cup { Append(q, x) : q \in SeqsUpTo(S, n - 1), x \in S }

(***************************************************************************)
(* The request one call of Base._request issues.                           *)
(***************************************************************************)
\* base.py:20
DEFAULT_TIMEOUT == 10

InitTimeout(arg) == IF arg = NoArg THEN DEFAULT_TIMEOUT ELSE arg

\* dicts: functions from keys to values
EmptyDict == [k \in {} |-> <<>>]
Put(m, k, v) == [x \in (DOMAIN m) \cup {k} |-> IF x = k THEN v ELSE m[x]]
SetDefault(m, k, v) == IF k \in DOMAIN m THEN m ELSE Put(m, k, v)

\* f'Bearer {self._access_token}'
Bearer(token) == <<"Bearer ", token>>

\* headers = {**(headers or {})}: the contents of the new dict
HeadersCopied(given, heap) == IF given THEN heap.caller ELSE EmptyDict

\* headers = {**(headers or {})}: the dict the name headers is bound to afterwards,
\* the caller's dict or the dict local to this call of _request
HeadersTargetAliased(given) == IF given THEN "caller" ELSE "local"
HeadersTarget(given) == "local"

\* headers['Authorization'] = f'Bearer {self._access_token}'
AuthorizeKeepCaller(m, token) == SetDefault(m, "Authorization", Bearer(token))
Authorize(m, token) == Put(m, "Authorization", Bearer(token))

\* the headers of lines 186-189, written to the dict headers is bound to
HeapAfterHeaders(given, heap, token) ==
    [heap EXCEPT ![HeadersTarget(given)] =
        SetDefault(Authorize(HeadersCopied(given, heap), token),
                   "Accept", <<"application/json">>)]

\* bodies: None, a plain dict, or a pydantic model; a field of a model may be None
NoBody == [t |-> "none", fields |-> EmptyDict]
DictBody(f) == [t |-> "dict", fields |-> f]
ModelBody(f) == [t |-> "model", fields |-> f]

\* body.model_dump(mode='json', exclude_none=True) for a model, else the body as it is
SerializeBody(body) ==
    IF body.t = "model"
    THEN DictBody([k \in {x \in DOMAIN body.fields : body.fields[x] # <<"None">>}
                      |-> body.fields[k]])
    ELSE body

\* what _wrapper passes to _request: the arguments of the call as they are
WrapperArgsNoParams(desc) == [desc EXCEPT !.params = EmptyDict]
WrapperArgs(desc) == desc

NoRequest ==
    [url |-> <<>>, json |-> NoBody, method |-> "", params |-> EmptyDict,
     headers |-> EmptyDict, timeout |-> 0, session |-> 0]

\* self._session.request(url=, json=, method=, params=, headers=, timeout=)
SessionRequest(root, desc, hdrs, tmo, sess) ==
    [url |-> BuildUrl(root, desc.args), json |-> SerializeBody(desc.body),
     method |-> desc.method, params |-> desc.params, headers |-> hdrs,
     timeout |-> tmo, session |-> sess]

\* the arguments of the calls of the model
Descriptor(method, a, body, params, given) ==
    [method |-> method, args |-> a, body |-> body, params |-> params,
     headers_given |-> given]

PlainCall == Descriptor("GET", <<>>, NoBody, EmptyDict, FALSE)

(***************************************************************************)
(* Base.get_access_token and UberDirect.__init__.                          *)
(***************************************************************************)
\* the responses of the token endpoint: a body with an access_token, a JSON body
\* without one, and a body that is not JSON
TokenStatusCodes == {200, 401, 500}
TokenContents == {"{\"access_token\": \"tokA\"}", "{\"access_token\": \"tokB\"}", "{}", ""}
TokenResponses == [status_code : TokenStatusCodes, content : TokenContents]

\* response.raise_for_status()
RaisesForStatusNever(status) == FALSE
RaisesForStatus(status) == status >= 400

\* jwt = response.json(); jwt['access_token']
TokenJsonOk(content) == content # ""
TokenHasField(content) == content \in {"{\"access_token\": \"tokA\"}", "{\"access_token\": \"tokB\"}"}
TokenField(content) == IF content = "{\"access_token\": \"tokA\"}" THEN "tokA" ELSE "tokB"

\* get_access_token after requests.post returned resp
TokenOutcome(resp, at) ==
    IF RaisesForStatus(resp.status_code)
    THEN Outcome("HTTPError", resp.status_code, NoHeader, "None", at)
    ELSE IF ~TokenJsonOk(resp.content)
    THEN Outcome("JSONDecodeError", resp.status_code, NoHeader, "None", at)
    ELSE IF ~TokenHasField(resp.content)
    THEN Outcome("KeyError", resp.status_code, NoHeader, "None", at)
    ELSE Outcome("ok", resp.status_code, NoHeader, TokenField(resp.content), at)

NoTokenResponse == [status_code |-> 0, content |-> ""]

\* no session argument (None), and a session the caller made
NoSession == 0
ExternalSession == 100

\* uberdirect.py:21  session = session or requests.Session(); fresh is the new session
UberDirectSessionUnresolved(arg, fresh) == arg
UberDirectSession(arg, fresh) == IF arg = NoSession THEN fresh ELSE arg

\* base.py:51  self._session = session or requests.Session()
BaseSession(arg, fresh) == IF arg = NoSession THEN fresh ELSE arg

\* Quotes.__init__ and Deliveries.__init__ with the session passed on by UberDirect
SubClientSession(arg, fresh) == BaseSession(arg, fresh)

\* how many sessions an `x or requests.Session()` made
Made(arg) == IF arg = NoSession THEN 1 ELSE 0

\* the sessions of the parent, of quotes and of deliveries after UberDirect.__init__
UberDirectSessions(arg) ==
    LET s == UberDirectSession(arg, 1)
        n1 == Made(arg)
        p == BaseSession(s, n1 + 1)
        n2 == n1 + Made(s)
        q == SubClientSession(s, n2 + 1)
        n3 == n2 + Made(s)
        d == SubClientSession(s, n3 + 1)
    IN  [parent |-> p, quotes |-> q, deliveries |-> d]

Clients == {"parent", "quotes", "deliveries"}

\* the calls of the model: the arguments and the caller's header dict
Calls ==
    { [desc |-> PlainCall, headers |-> EmptyDict],
      [desc |-> Descriptor("POST", <<StrSeg(<<"a">>), IntSeg(42)>>,
                           ModelBody(("a" :> <<"1">>) @@ ("b" :> <<"None">>)),
                           ("limit" :> <<"5">>), TRUE),
       headers |-> ("Authorization" :> <<"Basic x">>) @@ ("X-Trace" :> <<"1">>)],
      [desc |-> Descriptor("GET", <<StrSeg(<<"a", "/", "b">>)>>, NoBody,
                           ("limit" :> <<"5">>), TRUE),
       headers |-> ("Accept" :> <<"text/csv">>)],
      [desc |-> Descriptor("PUT", <<IntSeg(0)>>, DictBody(("a" :> <<"1">>)),
                           EmptyDict, TRUE),
       headers |-> EmptyDict] }

(***************************************************************************)
(* State.                                                                  *)
(***************************************************************************)
VARIABLES
    max_retries,            \* self._max_retries
    jitter_max,             \* self._jitter_max, half seconds
    retriable_http_codes,   \* self._retriable_http_codes
    pc,                     \* where the call of _wrapper stands
    retries,                \* local retries
    exception,              \* local exception
    backoff,                \* local backoff
    result,                 \* the value _wrapper returned
    raised,                 \* the failure _wrapper raised
    attempts,               \* calls of _request made by this call
    sleeps,                 \* calls of sleep that suspended
    waited,                 \* the delay of the last suspension
    observed,               \* what the last call of _request ended with
    onlyTransport,          \* every attempt so far ended in a transport failure
    api_root,               \* self._api_root
    args,                   \* the path segments passed to _request
    url,                    \* the url _request built
    built,                  \* _request has built url
    access_token,           \* self._access_token
    timeout,                \* self._timeout
    session,                \* self._session of the client the call runs on
    call,                   \* the arguments of the call of _wrapper
    headers_heap,           \* the caller's header dict and the dict local to _request
    headers_before,         \* the caller's header dict when _wrapper was called
    sent,                   \* the request of the last attempt
    first_sent,             \* the request of the first attempt
    parent_session,         \* self._session of the UberDirect client
    quotes_session,         \* self.quotes._session
    deliveries_session,     \* self.deliveries._session
    session_arg,            \* the session argument of UberDirect.__init__
    client,                 \* the client the call runs on
    token_calls,            \* calls of requests.post made by get_access_token
    token_resp,             \* the response requests.post returned
    token_out,              \* what get_access_token ended with
    exec_resp,              \* the response the transport gave a single call of _request
    exec_out,               \* what that call of _request ended with
    exec_done,              \* that call of _request has ended
    t_pc,                   \* per concurrent call: where it stands
    t_retries,              \* per concurrent call: its local retries
    t_exception,            \* per concurrent call: its local exception
    t_backoff,              \* per concurrent call: its local backoff
    t_result,               \* per concurrent call: the value it returned
    t_raised,               \* per concurrent call: the failure it raised
    t_attempts,             \* per concurrent call: its calls of _request
    t_sleeps,               \* per concurrent call: its suspensions
    t_observed              \* per concurrent call: what its last _request ended with

vars == <<max_retries, jitter_max, retriable_http_codes, pc, retries, exception,
          backoff, result, raised, attempts, sleeps, waited, observed, onlyTransport,
          api_root, args, url, built, access_token, timeout, session, call,
          headers_heap, headers_before, sent, first_sent, parent_session,
          quotes_session, deliveries_session, session_arg, client, token_calls,
          token_resp, token_out, exec_resp, exec_out, exec_done, t_pc, t_retries,
          t_exception, t_backoff, t_result, t_raised, t_attempts, t_sleeps, t_observed>>

callvars == <<pc, retries, exception, backoff, result, raised, attempts, sleeps, waited,
              observed, onlyTransport>>

urlvars == <<api_root, args, url, built>>

config == <<max_retries, jitter_max, retriable_http_codes>>

\* the rest of the client's configuration
identity == <<access_token, timeout, session>>

\* the sessions of the clients made by UberDirect.__init__
clientvars == <<parent_session, quotes_session, deliveries_session, session_arg, client>>

\* get_access_token
tokenvars == <<token_calls, token_resp, token_out>>

\* a call of _request on its own
execvars == <<exec_resp, exec_out, exec_done>>

\* the locals of the calls of _wrapper that run at the same time
concvars == <<t_pc, t_retries, t_exception, t_backoff, t_result, t_raised, t_attempts,
              t_sleeps, t_observed>>

\* what a single call of _wrapper never touches
othervars == <<clientvars, tokenvars, execvars, concvars>>

\* the arguments of a call and the requests made for it
reqvars == <<call, headers_heap, headers_before, sent, first_sent>>

MaxRetriesArgs == {NoArg} \cup 0..MaxRetriesBound
JitterMaxArgs == {NoArg} \cup 0..MaxJitterBound
RetriableCodesArgs == {{NoArg}, {429}, {}}

\* the calls that run at the same time, and a failure with the call that made it
Threads == 1..NumCalls
By(c, o) == [by |-> c, f |-> o]

\* retries is a local of the call: the counter call c reads and writes is its own
RetryCellShared(c) == 1
RetryCell(c) == c

InitThreads ==
    /\ t_pc = [c \in Threads |-> "idle"]
    /\ t_retries = [c \in Threads |-> 0]
    /\ t_exception = [c \in Threads |-> By(c, None)]
    /\ t_backoff = [c \in Threads |-> Num(0)]
    /\ t_result = [c \in Threads |-> "None"]
    /\ t_raised = [c \in Threads |-> By(c, None)]
    /\ t_attempts = [c \in Threads |-> 0]
    /\ t_sleeps = [c \in Threads |-> 0]
    /\ t_observed = [c \in Threads |-> By(c, None)]

InitCall ==
    /\ pc = "idle"
    /\ retries = 0
    /\ exception = None
    /\ backoff = Num(0)
    /\ result = "None"
    /\ raised = None
    /\ attempts = 0
    /\ sleeps = 0
    /\ waited = Num(0)
    /\ observed = None
    /\ onlyTransport = TRUE

\* a client with a token, the default timeout and a session; a call without arguments
InitPlain ==
    /\ access_token = "tokA"
    /\ timeout = InitTimeout(NoArg)
    /\ session = 1
    /\ call = PlainCall
    /\ headers_heap = [caller |-> EmptyDict, local |-> EmptyDict]
    /\ headers_before = EmptyDict
    /\ sent = NoRequest
    /\ first_sent = NoRequest
    /\ parent_session = 1
    /\ quotes_session = 1
    /\ deliveries_session = 1
    /\ session_arg = NoSession
    /\ client = "parent"
    /\ token_calls = 0
    /\ token_resp = NoTokenResponse
    /\ token_out = None
    /\ exec_resp = NoResponse
    /\ exec_out = None
    /\ exec_done = FALSE
    /\ InitThreads

Init ==
    /\ max_retries \in {InitMaxRetries(a) : a \in MaxRetriesArgs}
    /\ jitter_max \in {InitJitterMax(a) : a \in JitterMaxArgs}
    /\ retriable_http_codes \in {InitRetriableCodes(a) : a \in RetriableCodesArgs}
    /\ InitCall
    /\ InitPlain
    /\ api_root = ApiRoot(<<"c", "7">>)
    /\ args = <<>>
    /\ url = <<>>
    /\ built = FALSE

\* the head of the while loop, and what follows the loop
LoopHead(r, exc) ==
    IF LoopContinues(r, max_retries)
    THEN [pc |-> "request", raised |-> None]
    ELSE [pc |-> "raised", raised |-> AfterLoop(exc)]

\* _wrapper is called: retries = 0, exception = None, first test of the loop
Wrapper ==
    /\ pc = "idle"
    /\ retries' = 0
    /\ exception' = None
    /\ pc' = LoopHead(0, None).pc
    /\ raised' = LoopHead(0, None).raised
    /\ headers_before' = headers_heap.caller
    /\ UNCHANGED <<call, headers_heap, sent, first_sent>>
    /\ UNCHANGED <<config, identity, othervars, urlvars, backoff, result, attempts, sleeps, waited, observed, onlyTransport>>

\* _request up to self._session.request: the headers and the request issued
IssueRequest ==
    LET desc == WrapperArgs(call)
        heap == HeapAfterHeaders(desc.headers_given, headers_heap, access_token)
        req == SessionRequest(api_root, desc, heap[HeadersTarget(desc.headers_given)],
                              timeout, session)
    IN  /\ headers_heap' = heap
        /\ sent' = req
        /\ first_sent' = IF attempts = 0 THEN req ELSE first_sent
        /\ UNCHANGED <<call, headers_before>>

\* an attempt: _request returns
RequestReturns ==
    /\ pc = "request"
    /\ \E resp \in Responses :
         LET o == RequestOutcome(resp, attempts + 1) IN
         /\ o.kind = "ok"
         /\ observed' = o
         /\ result' = Returned(o.value)
    /\ pc' = "returned"
    /\ attempts' = attempts + 1
    /\ onlyTransport' = FALSE
    /\ IssueRequest
    /\ UNCHANGED <<config, identity, othervars, urlvars, retries, exception, backoff, raised, sleeps, waited>>

\* an attempt: _request raises requests.HTTPError
RequestHTTPError ==
    /\ pc = "request"
    /\ \E resp \in Responses, j \in 0..jitter_max :
         LET o == RequestOutcome(resp, attempts + 1) IN
         /\ o.kind = "HTTPError"
         /\ observed' = o
         /\ exception' = Captured(exception, o)
         /\ IF IsRetriable(o.status, retriable_http_codes)
            THEN /\ backoff' = HintBackoff(ExpBackoff(retries, j), o.retry_after)
                 /\ pc' = "sleep"
                 /\ raised' = raised
            ELSE /\ backoff' = backoff
                 /\ pc' = "raised"
                 /\ raised' = o
    /\ attempts' = attempts + 1
    /\ onlyTransport' = FALSE
    /\ IssueRequest
    /\ UNCHANGED <<config, identity, othervars, urlvars, retries, result, sleeps, waited>>

\* an attempt: the transport raises requests.ConnectionError or requests.Timeout
RequestTransportError ==
    /\ pc = "request"
    /\ \E kind \in TransportFailures, j \in 0..jitter_max :
         LET o == Outcome(kind, 0, NoHeader, "None", attempts + 1) IN
         /\ observed' = o
         /\ exception' = Captured(exception, o)
         /\ backoff' = ExpBackoff(retries, j)
         /\ pc' = TransportHandler
         /\ raised' = IF TransportHandler = "raised" THEN o ELSE raised
    /\ attempts' = attempts + 1
    /\ IssueRequest
    /\ UNCHANGED <<config, identity, othervars, urlvars, retries, result, sleeps, waited, onlyTransport>>

\* an attempt: _request raises a failure no except clause of _wrapper names
RequestOtherError ==
    /\ pc = "request"
    /\ \E resp \in Responses, j \in 0..jitter_max :
         LET o == RequestOutcome(resp, attempts + 1) IN
         /\ o.kind = "JSONDecodeError"
         /\ observed' = o
         /\ IF Caught(o.kind)
            THEN /\ exception' = Captured(exception, o)
                 /\ backoff' = ExpBackoff(retries, j)
                 /\ pc' = "sleep"
                 /\ raised' = raised
            ELSE /\ pc' = "raised"
                 /\ raised' = o
                 /\ UNCHANGED <<exception, backoff>>
    /\ attempts' = attempts + 1
    /\ onlyTransport' = FALSE
    /\ IssueRequest
    /\ UNCHANGED <<config, identity, othervars, urlvars, retries, result, sleeps, waited>>

\* sleep(backoff); retries += 1; continue
Sleep ==
    /\ pc = "sleep"
    /\ IF SleepRaises(backoff) # ""
       THEN /\ pc' = "raised"
            /\ raised' = Outcome(SleepRaises(backoff), 0, NoHeader, "None", 0)
            /\ UNCHANGED <<retries, sleeps, waited>>
       ELSE /\ waited' = backoff
            /\ sleeps' = sleeps + 1
            /\ retries' = retries + 1
            /\ pc' = LoopHead(retries + 1, exception).pc
            /\ raised' = LoopHead(retries + 1, exception).raised
    /\ UNCHANGED <<config, identity, othervars, reqvars, urlvars, exception, backoff, result, attempts,
                   observed, onlyTransport>>

Next ==
    \/ Wrapper
    \/ RequestReturns
    \/ RequestHTTPError
    \/ RequestTransportError
    \/ RequestOtherError
    \/ Sleep

Spec == Init /\ [][Next]_vars

(***************************************************************************)
(* A token is fetched, an UberDirect client is made with it, and one call  *)
(* runs on the client or on one of its sub-clients.                        *)
(***************************************************************************)
MaxRetriesArgsClient == {0, 1}
TimeoutArgsClient == {NoArg, 3}
SessionArgs == {NoSession, ExternalSession}

InitClient ==
    /\ max_retries = NoArg
    /\ jitter_max = NoArg
    /\ retriable_http_codes = {NoArg}
    /\ pc = "start"
    /\ retries = 0
    /\ exception = None
    /\ backoff = Num(0)
    /\ result = "None"
    /\ raised = None
    /\ attempts = 0
    /\ sleeps = 0
    /\ waited = Num(0)
    /\ observed = None
    /\ onlyTransport = TRUE
    /\ api_root = <<>>
    /\ args = <<>>
    /\ url = <<>>
    /\ built = FALSE
    /\ access_token = ""
    /\ timeout = NoArg
    /\ session = NoSession
    /\ \E c \in Calls :
         /\ call = c.desc
         /\ headers_heap = [caller |-> c.headers, local |-> EmptyDict]
    /\ headers_before = EmptyDict
    /\ sent = NoRequest
    /\ first_sent = NoRequest
    /\ parent_session = NoSession
    /\ quotes_session = NoSession
    /\ deliveries_session = NoSession
    /\ session_arg = NoSession
    /\ client \in Clients
    /\ token_calls = 0
    /\ token_resp = NoTokenResponse
    /\ token_out = None
    /\ exec_resp = NoResponse
    /\ exec_out = None
    /\ exec_done = FALSE
    /\ InitThreads

\* get_access_token: requests.post returns a response
GetAccessToken ==
    /\ pc = "start"
    /\ \E resp \in TokenResponses :
         /\ token_resp' = resp
         /\ token_out' = TokenOutcome(resp, token_calls + 1)
         /\ pc' = IF TokenOutcome(resp, token_calls + 1).kind = "ok"
                  THEN "new" ELSE "token_raised"
    /\ token_calls' = token_calls + 1
    /\ UNCHANGED <<config, identity, clientvars, execvars, concvars, reqvars, urlvars, retries, exception,
                   backoff, result, raised, attempts, sleeps, waited, observed,
                   onlyTransport>>

\* get_access_token: requests.post raises
GetAccessTokenFails ==
    /\ pc = "start"
    /\ \E kind \in TransportFailures :
         token_out' = Outcome(kind, 0, NoHeader, "None", token_calls + 1)
    /\ pc' = "token_raised"
    /\ token_calls' = token_calls + 1
    /\ UNCHANGED <<config, identity, clientvars, execvars, concvars, reqvars, urlvars, retries, exception,
                   backoff, result, raised, attempts, sleeps, waited, observed,
                   onlyTransport, token_resp>>

\* UberDirect.__init__ with the token fetched
UberDirectInit ==
    /\ pc = "new"
    /\ \E mr \in MaxRetriesArgsClient, tmo \in TimeoutArgsClient, s \in SessionArgs,
          cid \in CustomerIds :
         /\ max_retries' = InitMaxRetries(mr)
         /\ timeout' = InitTimeout(tmo)
         /\ api_root' = ApiRoot(cid)
         /\ session_arg' = s
         /\ parent_session' = UberDirectSessions(s).parent
         /\ quotes_session' = UberDirectSessions(s).quotes
         /\ deliveries_session' = UberDirectSessions(s).deliveries
         /\ session' = UberDirectSessions(s)[client]
    /\ jitter_max' = InitJitterMax(NoArg)
    /\ retriable_http_codes' = InitRetriableCodes({NoArg})
    /\ access_token' = token_out.value
    /\ pc' = "idle"
    /\ UNCHANGED <<tokenvars, execvars, concvars, reqvars, client, args, url, built, retries, exception,
                   backoff, result, raised, attempts, sleeps, waited, observed,
                   onlyTransport>>

NextClient ==
    \/ GetAccessToken
    \/ GetAccessTokenFails
    \/ UberDirectInit
    \/ Next

SpecClient == InitClient /\ [][NextClient]_vars

(***************************************************************************)
(* Properties of the retry loop.                                           *)
(***************************************************************************)
\* the last attempt ended in a failure that _wrapper retries
RetriableObserved ==
    \/ observed.kind \in TransportFailures
    \/ observed.kind = "HTTPError" /\ observed.status \in retriable_http_codes

\* the Retry-After texts of the model that are numbers of seconds, in half seconds
NumericHints == { <<"0">>, <<"7">>, <<"1", ".", "5">>, <<"-", "1">> }
HintHalfSeconds(text) ==
    CASE text = <<"0">> -> 0
      [] text = <<"7">> -> 14
      [] text = <<"1", ".", "5">> -> 3
      [] text = <<"-", "1">> -> 0 - 2

\* the last attempt failed and left no hint that parses as a number
NoUsableHint ==
    \/ observed.kind \in TransportFailures
    \/ /\ observed.kind = "HTTPError"
       /\ observed.retry_after \in {NoHeader, Header(<<>>), Header(<<"a", "b", "c">>)}

\* min(2^k, 20) in half seconds, k the 0-based index of the attempt
CappedExponential(k) == IF k >= 5 THEN 2 * 20 ELSE 2 * Pow2(k)

InExponentialRange(d, k) ==
    /\ d.k = "num"
    /\ CappedExponential(k) <= d.v
    /\ d.v <= CappedExponential(k) + jitter_max

\* C1: a call of _wrapper makes at most max_retries + 1 attempts, whatever the
\* executor's outcomes are.
C1_AttemptsBounded == attempts <= max_retries + 1

C1_Witness ==
    /\ pc = "raised"
    /\ max_retries >= 3
    /\ attempts = max_retries + 1
    /\ ~onlyTransport

\* C2: when a call raises after all max_retries + 1 attempts failed retriably,
\* the failure raised is the one the last attempt produced.
C2_LastFailureRaised ==
    (pc = "raised" /\ attempts = max_retries + 1 /\ RetriableObserved)
        => raised = observed

\* C3: an HTTP error with a status outside the retriable set is re-raised at
\* once: it is the failure raised, no attempt follows it and no suspension
\* follows it, at whatever attempt it occurs.
C3_NonRetriableRaisedAtOnce ==
    (observed.kind = "HTTPError" /\ observed.status \notin retriable_http_codes)
        => /\ pc = "raised"
           /\ raised = observed
           /\ attempts = observed.at
           /\ sleeps = observed.at - 1

C3_Witness ==
    /\ pc = "raised"
    /\ raised.kind = "HTTPError"
    /\ raised.status = 404
    /\ raised.status \notin retriable_http_codes
    /\ attempts >= 2
    /\ raised.at = attempts

\* C4: a suspension happens only while the attempt counter is below
\* max_retries, so one call suspends at most max_retries times.
C4_SuspendOnlyWithinBudget ==
    /\ pc = "sleep" => retries < max_retries
    /\ sleeps <= max_retries

\* C5: a Retry-After header that is a number of seconds is the delay, exactly:
\* it is what is passed to sleep and what was waited when the next attempt starts.
C5_RetryAfterVerbatim ==
    (observed.kind = "HTTPError" /\ observed.retry_after.present
        /\ observed.retry_after.text \in NumericHints)
        => /\ pc = "sleep" => backoff = Num(HintHalfSeconds(observed.retry_after.text))
           /\ pc = "request" => waited = Num(HintHalfSeconds(observed.retry_after.text))

C5_Witness ==
    /\ pc = "request"
    /\ attempts >= 2
    /\ jitter_max > 0
    /\ observed.kind = "HTTPError"
    /\ observed.retry_after = Header(<<"7">>)
    /\ waited = Num(14)

\* C6: the delay passed to sleep is never negative.
C6_DelayNeverNegative ==
    pc = "sleep" => ~(backoff.k = "num" /\ backoff.v < 0)

\* C7: a run whose attempts all end in connection or timeout failures makes
\* exactly max_retries + 1 attempts before one of them is raised, and the delay
\* after such a failure is always the exponential one.
C7_TransportAlwaysRetried ==
    /\ (pc = "raised" /\ onlyTransport /\ attempts > 0)
         => /\ attempts = max_retries + 1
            /\ raised.kind \in TransportFailures
    /\ (pc = "sleep" /\ observed.kind \in TransportFailures)
         => InExponentialRange(backoff, attempts - 1)
    /\ (pc = "request" /\ observed.kind \in TransportFailures)
         => InExponentialRange(waited, attempts - 1)

C7_Witness ==
    /\ pc = "raised"
    /\ onlyTransport
    /\ max_retries >= 2
    /\ attempts = max_retries + 1
    /\ raised.kind = "Timeout"

\* C8: when an attempt succeeds, _wrapper returns the value the executor
\* produced on that attempt and makes no further attempt.
C8_SuccessReturned ==
    /\ observed.kind = "ok"
         => /\ pc = "returned"
            /\ result = observed.value
            /\ attempts = observed.at
    /\ pc = "returned" => observed.kind = "ok"

C8_Witness ==
    /\ pc = "returned"
    /\ result = "dict(id=2)"
    /\ sleeps >= 2
    /\ attempts = sleeps + 1

\* C9: without a usable hint the delay after the failure of attempt k (0-based)
\* lies in [min(2^k, 20), min(2^k, 20) + jitter_max].
C9_ExponentialDelay ==
    NoUsableHint
        => /\ pc = "sleep" => InExponentialRange(backoff, attempts - 1)
           /\ pc = "request" => InExponentialRange(waited, attempts - 1)

C9_Witness ==
    /\ pc = "sleep"
    /\ attempts = 6
    /\ observed.kind = "HTTPError"
    /\ observed.retry_after = Header(<<"a", "b", "c">>)
    /\ jitter_max = 2
    /\ backoff = Num(41)

(***************************************************************************)
(* The URL join alone, over lists of path segments.                        *)
(***************************************************************************)
InitUrl ==
    /\ max_retries = InitMaxRetries(NoArg)
    /\ jitter_max = InitJitterMax(NoArg)
    /\ retriable_http_codes = InitRetriableCodes({NoArg})
    /\ InitCall
    /\ InitPlain
    /\ api_root \in {ApiRoot(c) : c \in CustomerIds}
    /\ args \in SeqsUpTo(SegmentValues, MaxSegments)
    /\ url = <<>>
    /\ built = FALSE

\* the url of one call of _request
RequestUrl ==
    /\ ~built
    /\ url' = BuildUrl(api_root, args)
    /\ built' = TRUE
    /\ UNCHANGED <<config, identity, othervars, reqvars, callvars, api_root, args>>

NextUrl == RequestUrl

SpecUrl == InitUrl /\ [][NextUrl]_vars

\* the part of the url after the root
UrlTail == SubSeq(url, Len(RStrip(api_root)) + 1, Len(url))

SeparatorCount(s) == Cardinality({i \in 1..Len(s) : s[i] = Sep})

\* C10: the url has exactly one separator between consecutive segments and no
\* empty segment; an empty list of segments yields the root.
C10_UrlWellFormed ==
    built =>
        /\ SubSeq(url, 1, Len(RStrip(api_root))) = RStrip(api_root)
        /\ SeparatorCount(UrlTail) = Len(args)
        /\ \A i \in 1..Len(UrlTail) :
             UrlTail[i] = Sep => (i < Len(UrlTail) /\ UrlTail[i + 1] # Sep)
        /\ args = <<>> => url = RStrip(api_root)

(***************************************************************************)
(* One call of _request on its own, for every response of the transport.   *)
(***************************************************************************)
InitExecutor ==
    /\ max_retries = InitMaxRetries(NoArg)
    /\ jitter_max = InitJitterMax(NoArg)
    /\ retriable_http_codes = InitRetriableCodes({NoArg})
    /\ InitCall
    /\ access_token = "tokA"
    /\ timeout = InitTimeout(NoArg)
    /\ session = 1
    /\ \E c \in Calls :
         /\ call = c.desc
         /\ headers_heap = [caller |-> c.headers, local |-> EmptyDict]
         /\ headers_before = c.headers
    /\ sent = NoRequest
    /\ first_sent = NoRequest
    /\ parent_session = 1
    /\ quotes_session = 1
    /\ deliveries_session = 1
    /\ session_arg = NoSession
    /\ client = "parent"
    /\ token_calls = 0
    /\ token_resp = NoTokenResponse
    /\ token_out = None
    /\ exec_resp = NoResponse
    /\ exec_out = None
    /\ exec_done = FALSE
    /\ InitThreads
    /\ api_root = ApiRoot(<<"c", "7">>)
    /\ args = <<>>
    /\ url = <<>>
    /\ built = FALSE

\* _request: the transport returns a response
RequestOnce ==
    /\ ~exec_done
    /\ IssueRequest
    /\ \E resp \in Responses :
         /\ exec_resp' = resp
         /\ exec_out' = RequestOutcome(resp, 1)
    /\ exec_done' = TRUE
    /\ UNCHANGED <<config, identity, clientvars, tokenvars, concvars, urlvars, callvars>>

\* _request: the transport raises
RequestOnceFails ==
    /\ ~exec_done
    /\ IssueRequest
    /\ \E kind \in TransportFailures :
         exec_out' = Outcome(kind, 0, NoHeader, "None", 1)
    /\ exec_done' = TRUE
    /\ UNCHANGED <<config, identity, clientvars, tokenvars, concvars, urlvars, callvars, exec_resp>>

NextExecutor ==
    \/ RequestOnce
    \/ RequestOnceFails

SpecExecutor == InitExecutor /\ [][NextExecutor]_vars

(***************************************************************************)
(* The retry loop for every max_retries the constructor accepts.           *)
(***************************************************************************)
\* the least max_retries a client is constructed with
MinRetriesArg == 0 - 2

InitAnyBudget ==
    /\ max_retries \in {InitMaxRetries(a) : a \in {NoArg} \cup MinRetriesArg..MaxRetriesBound}
    /\ jitter_max \in {InitJitterMax(a) : a \in JitterMaxArgs}
    /\ retriable_http_codes \in {InitRetriableCodes(a) : a \in RetriableCodesArgs}
    /\ InitCall
    /\ InitPlain
    /\ api_root = ApiRoot(<<"c", "7">>)
    /\ args = <<>>
    /\ url = <<>>
    /\ built = FALSE

SpecAnyBudget == InitAnyBudget /\ [][Next]_vars

(***************************************************************************)
(* Several calls of _wrapper at the same time on one client: each has its  *)
(* own locals, the configuration is shared and only read.                  *)
(***************************************************************************)
MaxRetriesArgsThreads == {0, 1}

\* the responses the transport gives the concurrent calls
ThreadResponses ==
    { r \in Responses :
        /\ r.status_code \in {200, 404, 429}
        /\ r.content \in {"{\"id\": 1}", "<html>"}
        /\ r.retry_after \in {NoHeader, Header(<<"7">>), Header(<<"-", "1">>)} }

InitConcurrent ==
    /\ max_retries \in {InitMaxRetries(a) : a \in MaxRetriesArgsThreads}
    /\ jitter_max = InitJitterMax(NoArg)
    /\ retriable_http_codes = InitRetriableCodes({NoArg})
    /\ InitCall
    /\ InitPlain
    /\ api_root = ApiRoot(<<"c", "7">>)
    /\ args = <<>>
    /\ url = <<>>
    /\ built = FALSE

single == <<config, identity, clientvars, tokenvars, execvars, reqvars, urlvars, callvars>>

\* the head of the while loop of call c, and what follows the loop
ThreadLoopHead(c, r, exc) ==
    IF LoopContinues(r, max_retries)
    THEN [pc |-> "request", raised |-> By(c, None)]
    ELSE [pc |-> "raised", raised |-> By(exc.by, AfterLoop(exc.f))]

\* call c enters _wrapper
ThreadWrapper(c) ==
    /\ t_pc[c] = "idle"
    /\ t_retries' = [t_retries EXCEPT ![RetryCell(c)] = 0]
    /\ t_exception' = [t_exception EXCEPT ![c] = By(c, None)]
    /\ t_pc' = [t_pc EXCEPT ![c] = ThreadLoopHead(c, 0, By(c, None)).pc]
    /\ t_raised' = [t_raised EXCEPT ![c] = ThreadLoopHead(c, 0, By(c, None)).raised]
    /\ UNCHANGED <<single, t_backoff, t_result, t_attempts, t_sleeps, t_observed>>

\* an attempt of call c: _request returns
ThreadRequestReturns(c) ==
    /\ t_pc[c] = "request"
    /\ \E resp \in ThreadResponses :
         LET o == RequestOutcome(resp, t_attempts[c] + 1) IN
         /\ o.kind = "ok"
         /\ t_observed' = [t_observed EXCEPT ![c] = By(c, o)]
         /\ t_result' = [t_result EXCEPT ![c] = Returned(o.value)]
    /\ t_pc' = [t_pc EXCEPT ![c] = "returned"]
    /\ t_attempts' = [t_attempts EXCEPT ![c] = @ + 1]
    /\ UNCHANGED <<single, t_retries, t_exception, t_backoff, t_raised, t_sleeps>>

\* an attempt of call c: _request raises requests.HTTPError
ThreadRequestHTTPError(c) ==
    /\ t_pc[c] = "request"
    /\ \E resp \in ThreadResponses, j \in 0..jitter_max :
         LET o == RequestOutcome(resp, t_attempts[c] + 1) IN
         /\ o.kind = "HTTPError"
         /\ t_observed' = [t_observed EXCEPT ![c] = By(c, o)]
         /\ t_exception' = [t_exception EXCEPT ![c] = By(c, Captured(t_exception[c].f, o))]
         /\ IF IsRetriable(o.status, retriable_http_codes)
            THEN /\ t_backoff' = [t_backoff EXCEPT ![c] =
                        HintBackoff(ExpBackoff(t_retries[RetryCell(c)], j), o.retry_after)]
                 /\ t_pc' = [t_pc EXCEPT ![c] = "sleep"]
                 /\ t_raised' = t_raised
            ELSE /\ t_backoff' = t_backoff
                 /\ t_pc' = [t_pc EXCEPT ![c] = "raised"]
                 /\ t_raised' = [t_raised EXCEPT ![c] = By(c, o)]
    /\ t_attempts' = [t_attempts EXCEPT ![c] = @ + 1]
    /\ UNCHANGED <<single, t_retries, t_result, t_sleeps>>

\* an attempt of call c: the transport raises ConnectionError or Timeout
ThreadRequestTransportError(c) ==
    /\ t_pc[c] = "request"
    /\ \E kind \in TransportFailures, j \in 0..jitter_max :
         LET o == Outcome(kind, 0, NoHeader, "None", t_attempts[c] + 1) IN
         /\ t_observed' = [t_observed EXCEPT ![c] = By(c, o)]
         /\ t_exception' = [t_exception EXCEPT ![c] = By(c, Captured(t_exception[c].f, o))]
         /\ t_backoff' = [t_backoff EXCEPT ![c] = ExpBackoff(t_retries[RetryCell(c)], j)]
         /\ t_pc' = [t_pc EXCEPT ![c] = TransportHandler]
         /\ t_raised' = IF TransportHandler = "raised"
                        THEN [t_raised EXCEPT ![c] = By(c, o)] ELSE t_raised
    /\ t_attempts' = [t_attempts EXCEPT ![c] = @ + 1]
    /\ UNCHANGED <<single, t_retries, t_result, t_sleeps>>

\* an attempt of call c: _request raises a failure no except clause names
ThreadRequestOtherError(c) ==
    /\ t_pc[c] = "request"
    /\ \E resp \in ThreadResponses, j \in 0..jitter_max :
         LET o == RequestOutcome(resp, t_attempts[c] + 1) IN
         /\ o.kind = "JSONDecodeError"
         /\ t_observed' = [t_observed EXCEPT ![c] = By(c, o)]
         /\ IF Caught(o.kind)
            THEN /\ t_exception' = [t_exception EXCEPT ![c] =
                        By(c, Captured(t_exception[c].f, o))]
                 /\ t_backoff' = [t_backoff EXCEPT ![c] =
                        ExpBackoff(t_retries[RetryCell(c)], j)]
                 /\ t_pc' = [t_pc EXCEPT ![c] = "sleep"]
                 /\ t_raised' = t_raised
            ELSE /\ t_pc' = [t_pc EXCEPT ![c] = "raised"]
                 /\ t_raised' = [t_raised EXCEPT ![c] = By(c, o)]
                 /\ UNCHANGED <<t_exception, t_backoff>>
    /\ t_attempts' = [t_attempts EXCEPT ![c] = @ + 1]
    /\ UNCHANGED <<single, t_retries, t_result, t_sleeps>>

\* call c: sleep(backoff); retries += 1; continue
ThreadSleep(c) ==
    /\ t_pc[c] = "sleep"
    /\ IF SleepRaises(t_backoff[c]) # ""
       THEN /\ t_pc' = [t_pc EXCEPT ![c] = "raised"]
            /\ t_raised' = [t_raised EXCEPT ![c] =
                   By(c, Outcome(SleepRaises(t_backoff[c]), 0, NoHeader, "None", 0))]
            /\ UNCHANGED <<t_retries, t_sleeps>>
       ELSE /\ t_sleeps' = [t_sleeps EXCEPT ![c] = @ + 1]
            /\ t_retries' = [t_retries EXCEPT ![RetryCell(c)] = @ + 1]
            /\ t_pc' = [t_pc EXCEPT ![c] =
                   ThreadLoopHead(c, t_retries[RetryCell(c)] + 1, t_exception[c]).pc]
            /\ t_raised' = [t_raised EXCEPT ![c] =
                   ThreadLoopHead(c, t_retries[RetryCell(c)] + 1, t_exception[c]).raised]
    /\ UNCHANGED <<single, t_exception, t_backoff, t_result, t_attempts, t_observed>>

NextConcurrent ==
    \E c \in Threads :
        \/ ThreadWrapper(c)
        \/ ThreadRequestReturns(c)
        \/ ThreadRequestHTTPError(c)
        \/ ThreadRequestTransportError(c)
        \/ ThreadRequestOtherError(c)
        \/ ThreadSleep(c)

SpecConcurrent == InitConcurrent /\ [][NextConcurrent]_vars

\* the failures a call of _request can end with
ExecutorFailures == {"HTTPError", "ConnectionError", "Timeout", "JSONDecodeError"}

\* C17: calls that run at the same time keep their retry state apart: each makes
\* at most max_retries + 1 attempts, its counter counts its own suspensions, a
\* retriable failure is raised only after max_retries + 1 attempts of its own,
\* and what a call raises was made in that call and, when it is a failure of the
\* executor, is what that call's last attempt ended with.
C17_CallsIndependent ==
    \A c \in Threads :
        /\ t_attempts[c] <= max_retries + 1
        /\ t_retries[c] = t_sleeps[c]
        /\ t_pc[c] = "raised"
             => /\ t_raised[c].by = c
                /\ t_raised[c].f.kind \in ExecutorFailures => t_raised[c] = t_observed[c]
                /\ (\/ t_raised[c].f.kind \in TransportFailures
                    \/ /\ t_raised[c].f.kind = "HTTPError"
                       /\ t_raised[c].f.status \in retriable_http_codes)
                     => t_attempts[c] = max_retries + 1

C17_Witness ==
    /\ max_retries = 1
    /\ t_pc[1] = "raised"
    /\ t_raised[1].f.kind = "HTTPError"
    /\ t_raised[1].f.status = 429
    /\ t_attempts[1] = 2
    /\ t_pc[2] = "sleep"
    /\ t_attempts[2] = 1
    /\ t_observed[2].f.kind = "Timeout"

(***************************************************************************)
(* Properties of the requests a client issues.                             *)
(***************************************************************************)
\* a call of _wrapper has started
InCall == pc \in {"request", "sleep", "returned", "raised"}

\* C11: the caller's header dict has the keys and values it had when _wrapper
\* was called, during the call and after it returned or raised.
C11_CallerHeadersUntouched ==
    InCall => headers_heap.caller = headers_before

C11_Witness ==
    /\ pc = "raised"
    /\ attempts = 2
    /\ call.headers_given
    /\ headers_before = ("Accept" :> <<"text/csv">>)
    /\ headers_heap.caller = headers_before
    /\ DOMAIN sent.headers = {"Accept", "Authorization"}

\* C12: every request issued carries Authorization: Bearer <access token>,
\* whatever the caller supplied, and its url starts with the client's root.
C12_EveryRequestAuthorized ==
    attempts > 0
        => /\ "Authorization" \in DOMAIN sent.headers
           /\ sent.headers["Authorization"] = <<"Bearer ", access_token>>
           /\ Len(sent.url) >= Len(RStrip(api_root))
           /\ SubSeq(sent.url, 1, Len(RStrip(api_root))) = RStrip(api_root)

C12_Witness ==
    /\ attempts = 2
    /\ "Authorization" \in DOMAIN headers_before
    /\ headers_before["Authorization"] = <<"Basic x">>
    /\ access_token = "tokB"
    /\ sent.headers["Authorization"] = <<"Bearer ", "tokB">>
    /\ first_sent.headers["Authorization"] = <<"Bearer ", "tokB">>

\* C13: after UberDirect.__init__ the parent, quotes and deliveries hold one and
\* the same session, the caller's when one was supplied.
C13_OneSharedSession ==
    pc \notin {"start", "token_raised", "new"}
        => /\ parent_session # NoSession
           /\ quotes_session = parent_session
           /\ deliveries_session = parent_session
           /\ session_arg # NoSession => parent_session = session_arg
           /\ attempts > 0 => sent.session = parent_session

C13_Witness ==
    /\ pc = "returned"
    /\ session_arg = NoSession
    /\ client = "quotes"
    /\ sent.session = parent_session
    /\ deliveries_session = parent_session

\* C14: get_access_token makes exactly one HTTP call and never suspends; a status
\* of 400 or more and a transport failure are raised at once, and a 2xx response
\* with an access_token gives that token.
C14_TokenFetchOneShot ==
    token_out.kind # "None"
        => /\ token_calls = 1
           /\ token_out.at = 1
           /\ pc \in {"new", "token_raised"} => (sleeps = 0 /\ attempts = 0)
           /\ token_resp.status_code >= 400
                => /\ token_out.kind = "HTTPError"
                   /\ token_out.status = token_resp.status_code
           /\ token_out.kind \in {"HTTPError"} \cup TransportFailures
                => pc = "token_raised"
           /\ (token_resp.status_code = 200
                 /\ token_resp.content = "{\"access_token\": \"tokA\"}")
                => (token_out.kind = "ok" /\ token_out.value = "tokA")
           /\ (token_resp.status_code = 200
                 /\ token_resp.content = "{\"access_token\": \"tokB\"}")
                => (token_out.kind = "ok" /\ token_out.value = "tokB")

C14_Witness ==
    /\ pc = "token_raised"
    /\ token_calls = 1
    /\ token_resp.status_code = 401
    /\ token_resp.content = "{\"access_token\": \"tokA\"}"
    /\ token_out.kind = "HTTPError"
    /\ token_out.status = 401

\* a step of a call leaves the configuration and the arguments alone, and an
\* attempt issues the request of the arguments
SameRequestStep ==
    pc \in {"idle", "request", "sleep"}
        => /\ max_retries' = max_retries
           /\ jitter_max' = jitter_max
           /\ retriable_http_codes' = retriable_http_codes
           /\ access_token' = access_token
           /\ timeout' = timeout
           /\ api_root' = api_root
           /\ call' = call
           /\ attempts' = attempts + 1
                => /\ sent'.method = call.method
                   /\ sent'.url = BuildUrl(api_root, call.args)
                   /\ sent'.json = SerializeBody(call.body)
                   /\ sent'.params = call.params
                   /\ sent'.timeout = timeout
                   /\ attempts > 0 => sent' = sent

\* C20: every attempt of a call issues the request of the call's arguments, the
\* same as the attempt before, and no step of the call changes the client's
\* configuration or the arguments.
C20_SameRequestEveryAttempt == [][SameRequestStep]_vars

C20_Witness ==
    /\ attempts = 2
    /\ call.method = "POST"
    /\ sent = first_sent
    /\ sent.params = ("limit" :> <<"5">>)
    /\ sent.json = DictBody(("a" :> <<"1">>))
    /\ timeout = 3

(***************************************************************************)
(* Properties of the executor and of how calls end.                        *)
(***************************************************************************)
\* C15: _request returns {} for a 204 or an empty body and the parsed JSON body
\* otherwise, and for a status of 400 or more it returns nothing and raises an
\* HTTPError with that status.
C15_ExecutorResult ==
    (exec_done /\ exec_resp # NoResponse)
        => /\ (exec_resp.status_code < 400
                 /\ (exec_resp.status_code = 204 \/ exec_resp.content = ""))
                => (exec_out.kind = "ok" /\ exec_out.value = "{}")
           /\ (exec_resp.status_code = 200 /\ exec_resp.content = "{\"id\": 1}")
                => (exec_out.kind = "ok" /\ exec_out.value = "dict(id=1)")
           /\ (exec_resp.status_code = 200 /\ exec_resp.content = "{\"id\": 2}")
                => (exec_out.kind = "ok" /\ exec_out.value = "dict(id=2)")
           /\ exec_resp.status_code >= 400
                => /\ exec_out.kind = "HTTPError"
                   /\ exec_out.status = exec_resp.status_code
                   /\ exec_out.value = "None"

C15_Witness ==
    /\ exec_done
    /\ exec_resp.status_code = 204
    /\ exec_resp.content = "{\"id\": 1}"
    /\ exec_out.kind = "ok"
    /\ exec_out.value = "{}"

\* C16: a call ends by returning the executor's result or by raising a failure
\* the executor produced, never in another way.
C16_ReturnsOrRaisesObserved ==
    /\ pc = "returned" => (observed.kind = "ok" /\ result = observed.value)
    /\ pc = "raised" => (observed.kind \notin {"None", "ok"} /\ raised = observed)

\* C18: the assertion after the loop never fails, whatever max_retries the
\* client was constructed with.
C18_AssertionNeverFails == raised.kind # "AssertionError"

\* C19: a failure of _request that is neither an HTTPError nor a connection or
\* timeout failure leaves _wrapper at once: it is what the call raises, no
\* suspension and no attempt follow it.
C19_OtherFailurePropagates ==
    observed.kind = "JSONDecodeError"
        => /\ pc = "raised"
           /\ raised = observed
           /\ attempts = observed.at
           /\ sleeps = observed.at - 1

C19_Witness ==
    /\ pc = "raised"
    /\ raised.kind = "JSONDecodeError"
    /\ attempts >= 3
    /\ sleeps = attempts - 1
    /\ raised.at = attempts

====
